---- MODULE Spec2Model ----
(***************************************************************************)
(* Student Management System (src/student.py): one interactive session of  *)
(* main() over the in-memory list `students` and the backing file          *)
(* students.txt.                                                           *)
(*                                                                         *)
(* Text is a sequence of one-character strings, so that str(), int(),      *)
(* float() and strip() are computed character by character.  A float is    *)
(* the decimal m / 10^e, kept normalised (e = 0 or m not a multiple of     *)
(* 10); the literals of the model are short decimals, for which Python's   *)
(* repr()/float() agree with decimal arithmetic.  The csv module is the    *)
(* row <-> fields codec: the file is a sequence of rows, a row a sequence  *)
(* of field texts.                                                         *)
(***************************************************************************)
EXTENDS Integers, Sequences, FiniteSets, TLC

VARIABLES pc, file, students, out, choice, typed, saves, adds, usedIds

vars == <<pc, file, students, out, choice, typed, saves, adds, usedIds>>

\* Number of records one session adds in the model.
MaxAdds == 2

\* get_next_id's result for an empty collection.
FirstId == 1001

(***************************************************************************)
(* Text primitives                                                         *)
(***************************************************************************)
Digits == <<"0", "1", "2", "3", "4", "5", "6", "7", "8", "9">>

IsDigit(c) == \E d \in 1..10 : Digits[d] = c

DigitVal(c) == (CHOOSE d \in 1..10 : Digits[d] = c) - 1

IsSpace(c) == c = " "

RECURSIVE LStrip(_)
LStrip(t) == IF t # <<>> /\ IsSpace(Head(t)) THEN LStrip(Tail(t)) ELSE t

RECURSIVE RStrip(_)
RStrip(t) ==
    IF t # <<>> /\ IsSpace(t[Len(t)]) THEN RStrip(SubSeq(t, 1, Len(t) - 1)) ELSE t

\* str.strip()
Strip(t) == RStrip(LStrip(t))

\* str.upper() / str.lower() on the letters of the model's alphabet
UpperChar(c) == CASE c = "a" -> "A" [] c = "d" -> "D" [] c = "u" -> "U" [] OTHER -> c

LowerChar(c) == CASE c = "A" -> "a" [] c = "D" -> "d" [] c = "U" -> "u" [] OTHER -> c

Upper(t) == [i \in 1..Len(t) |-> UpperChar(t[i])]

Lower(t) == [i \in 1..Len(t) |-> LowerChar(t[i])]

\* q in t  (substring test)
Contains(t, q) ==
    \E i \in 0..(Len(t) - Len(q)) : SubSeq(t, i + 1, i + Len(q)) = q

AllDigits(t) == \A i \in 1..Len(t) : IsDigit(t[i])

RECURSIVE DigitsVal(_)
DigitsVal(t) ==
    IF t = <<>> THEN 0
    ELSE 10 * DigitsVal(SubSeq(t, 1, Len(t) - 1)) + DigitVal(t[Len(t)])

RECURSIVE NatStr(_)
NatStr(n) ==
    IF n < 10 THEN <<Digits[n + 1]>>
    ELSE NatStr(n \div 10) \o <<Digits[(n % 10) + 1]>>

\* str(n) of an int
StrInt(n) == IF n < 0 THEN <<"-">> \o NatStr(-n) ELSE NatStr(n)

HasSign(t) == t # <<>> /\ Head(t) \in {"+", "-"}

Unsigned(t) == IF HasSign(t) THEN Tail(t) ELSE t

SignOf(t) == IF t # <<>> /\ Head(t) = "-" THEN -1 ELSE 1

\* int(text): surrounding whitespace, an optional sign, then digits only;
\* anything else is a ValueError (ok = FALSE).
ParseInt(t) ==
    LET s == Strip(t)
        body == Unsigned(s)
    IN  IF body # <<>> /\ AllDigits(body)
        THEN [ok |-> TRUE, val |-> SignOf(s) * DigitsVal(body)]
        ELSE [ok |-> FALSE, val |-> 0]

(***************************************************************************)
(* Floats: the decimal m / 10^e                                            *)
(***************************************************************************)
RECURSIVE Pow10(_)
Pow10(e) == IF e = 0 THEN 1 ELSE 10 * Pow10(e - 1)

RECURSIVE Normalise(_)
Normalise(f) ==
    IF f.e > 0 /\ f.m % 10 = 0 THEN Normalise([m |-> f.m \div 10, e |-> f.e - 1])
    ELSE f

Float(m, e) == Normalise([m |-> m, e |-> e])

\* a <= b on floats
FloatLeq(a, b) == a.m * Pow10(b.e) <= b.m * Pow10(a.e)

DotAt(t) == IF \E i \in 1..Len(t) : t[i] = "."
            THEN CHOOSE i \in 1..Len(t) : t[i] = "." /\ \A j \in 1..(i - 1) : t[j] # "."
            ELSE 0

\* float(text): surrounding whitespace, an optional sign, digits with at most
\* one decimal point and at least one digit; anything else is a ValueError.
ParseFloat(t) ==
    LET s == Strip(t)
        body == Unsigned(s)
        dot == DotAt(body)
        ip == IF dot = 0 THEN body ELSE SubSeq(body, 1, dot - 1)
        fp == IF dot = 0 THEN <<>> ELSE SubSeq(body, dot + 1, Len(body))
    IN  IF AllDigits(ip) /\ AllDigits(fp) /\ ip \o fp # <<>>
        THEN [ok |-> TRUE, val |-> Float(SignOf(s) * DigitsVal(ip \o fp), Len(fp))]
        ELSE [ok |-> FALSE, val |-> Float(0, 0)]

RECURSIVE PadZeros(_, _)
PadZeros(t, n) == IF Len(t) >= n THEN t ELSE PadZeros(<<"0">> \o t, n)

\* A formatting with one decimal, as "{:.1f}" would print
FloatStrOneDecimal(f) ==
    LET mag == IF f.m < 0 THEN -f.m ELSE f.m
        tenths == IF f.e <= 1 THEN mag * Pow10(1 - f.e) ELSE mag \div Pow10(f.e - 1)
        ds == PadZeros(NatStr(tenths), 2)
        txt == SubSeq(ds, 1, Len(ds) - 1) \o <<".", ds[Len(ds)]>>
    IN  IF f.m < 0 THEN <<"-">> \o txt ELSE txt

\* str(x) of a float: always with a decimal point, "4.0" for 4
FloatStr(f) ==
    LET mag == IF f.m < 0 THEN -f.m ELSE f.m
        ds == PadZeros(NatStr(mag), f.e + 1)
        cut == Len(ds) - f.e
        txt == IF f.e = 0 THEN ds \o <<".", "0">>
               ELSE SubSeq(ds, 1, cut) \o <<".">> \o SubSeq(ds, cut + 1, Len(ds))
    IN  IF f.m < 0 THEN <<"-">> \o txt ELSE txt

(***************************************************************************)
(* Python values handed to Student(...): a str, None, an int or a float    *)
(***************************************************************************)
StrV(t) == [t |-> "str", v |-> t]

NoneV == [t |-> "none"]

IntV(n) == [t |-> "int", v |-> n]

FloatV(f) == [t |-> "float", v |-> f]

\* int(x): exc is "" when it returns, else the exception raised
PyInt(x) ==
    CASE x.t = "int" -> [exc |-> "", val |-> x.v]
      [] x.t = "str" -> IF ParseInt(x.v).ok
                        THEN [exc |-> "", val |-> ParseInt(x.v).val]
                        ELSE [exc |-> "ValueError", val |-> 0]
      [] OTHER -> [exc |-> "TypeError", val |-> 0]

\* float(x)
PyFloat(x) ==
    CASE x.t = "float" -> [exc |-> "", val |-> x.v]
      [] x.t = "str" -> IF ParseFloat(x.v).ok
                        THEN [exc |-> "", val |-> ParseFloat(x.v).val]
                        ELSE [exc |-> "ValueError", val |-> Float(0, 0)]
      [] OTHER -> [exc |-> "TypeError", val |-> Float(0, 0)]

NoStudent == [id |-> <<>>, name |-> <<>>, age |-> 0, grade |-> <<>>, gpa |-> Float(0, 0)]

\* A constructor that lets a ValueError of int()/float() escape
StudentInitRaising(student_id, name, age, grade, gpa) ==
    LET a == PyInt(age)
        g == PyFloat(gpa)
    IN  IF a.exc # "" THEN [exc |-> a.exc, student |-> NoStudent]
        ELSE IF g.exc # "" THEN [exc |-> g.exc, student |-> NoStudent]
        ELSE [exc |-> "",
              student |-> [id |-> student_id.v, name |-> name.v, age |-> a.val,
                           grade |-> grade.v, gpa |-> g.val]]

\* Student.__init__: a ValueError of int()/float() is caught and the field
\* set to 0 / 0.0; any other exception leaves the constructor.
StudentInit(student_id, name, age, grade, gpa) ==
    LET a == PyInt(age)
        g == PyFloat(gpa)
    IN  IF a.exc = "TypeError" THEN [exc |-> "TypeError", student |-> NoStudent]
        ELSE IF g.exc = "TypeError" THEN [exc |-> "TypeError", student |-> NoStudent]
        ELSE [exc |-> "",
              student |-> [id |-> student_id.v, name |-> name.v,
                           age |-> IF a.exc = "" THEN a.val ELSE 0,
                           grade |-> grade.v,
                           gpa |-> IF g.exc = "" THEN g.val ELSE Float(0, 0)]]

\* Student.to_dict as the csv writer lays it out: str() of each value, in
\* FIELDNAMES order
to_dict(s) == <<s.id, s.name, StrInt(s.age), s.grade, FloatStr(s.gpa)>>

(***************************************************************************)
(* The backing file                                                        *)
(***************************************************************************)
FIELDNAMES == << <<"I", "D">>, <<"N", "a", "m", "e">>, <<"A", "g", "e">>,
                 <<"G", "r", "a", "d", "e">>, <<"G", "P", "A">> >>

\* The file: whether os.path.exists(FILE_NAME), and its rows
Absent == [exists |-> FALSE, rows |-> <<>>]

FileOf(rows) == [exists |-> TRUE, rows |-> rows]

\* csv.DictReader(f, fieldnames=FIELDNAMES) on one non-blank row: every
\* fieldname is a key, the missing ones with restval None; fields beyond the
\* fifth go under restkey.
DictRow(row) ==
    [k \in 1..Len(FIELDNAMES) |-> IF k <= Len(row) THEN StrV(row[k]) ELSE NoneV]

\* A line printed: which message, and the id text it shows (<<>> if none)
Msg(m, a) == [m |-> m, a |-> a]

\* The body of the row loop of load_students: r.students and r.out so far,
\* then the rows left.  A blank line is no row for DictReader.
RECURSIVE LoadRows(_, _)
LoadRows(rows, r) ==
    IF rows = <<>> THEN r
    ELSE LET row == DictRow(Head(rows))
             made == StudentInit(row[1], row[2], row[3], row[4], row[5])
         IN  IF Head(rows) = <<>> THEN LoadRows(Tail(rows), r)
             ELSE IF ~(\A k \in 1..Len(FIELDNAMES) : k \in DOMAIN row)
                  THEN LoadRows(Tail(rows), r)
             ELSE IF made.exc # ""
                  THEN LoadRows(Tail(rows),
                                [r EXCEPT !.out = Append(@, Msg("skipping_corrupted_record",
                                                               Head(rows)[1]))])
             ELSE LoadRows(Tail(rows),
                           [r EXCEPT !.students = Append(@, made.student)])

\* load_students: the list returned, the messages printed, the file after.
\* next(reader) on a file without a first line raises StopIteration, which
\* the outer handler catches.
load_students(f) ==
    IF ~f.exists
    THEN [students |-> <<>>, out |-> <<>>, file |-> FileOf(<<FIELDNAMES>>)]
    ELSE IF f.rows = <<>>
    THEN [students |-> <<>>, out |-> <<Msg("error_during_file_loading", <<>>)>>, file |-> f]
    ELSE LET r == LoadRows(Tail(f.rows), [students |-> <<>>, out |-> <<>>])
         IN  [students |-> r.students, out |-> r.out, file |-> f]

\* save_students: the file as rewritten
save_students(studs) ==
    FileOf(<<FIELDNAMES>> \o [i \in 1..Len(studs) |-> to_dict(studs[i])])

(***************************************************************************)
(* Id assignment                                                           *)
(***************************************************************************)
Max(a, b) == IF a >= b THEN a ELSE b

\* A loop that keeps the last parseable id instead of the largest
RECURSIVE MaxIdLoopLast(_, _)
MaxIdLoopLast(studs, max_id) ==
    IF studs = <<>> THEN max_id
    ELSE IF ParseInt(Head(studs).id).ok
         THEN MaxIdLoopLast(Tail(studs), ParseInt(Head(studs).id).val)
         ELSE MaxIdLoopLast(Tail(studs), max_id)

RECURSIVE MaxIdLoop(_, _)
MaxIdLoop(studs, max_id) ==
    IF studs = <<>> THEN max_id
    ELSE IF ParseInt(Head(studs).id).ok
         THEN MaxIdLoop(Tail(studs), Max(max_id, ParseInt(Head(studs).id).val))
         ELSE MaxIdLoop(Tail(studs), max_id)

\* An id taken from the number of records
get_next_id_count(studs) == FirstId + Len(studs)

get_next_id(studs) ==
    IF studs = <<>> THEN FirstId ELSE MaxIdLoop(studs, 0) + 1

(***************************************************************************)
(* The handlers.  `lines` is what the user types during the handler, one   *)
(* text per input() call; a handler returns done = FALSE when it is still  *)
(* waiting at a prompt after the last line, and `rest` are the lines it    *)
(* did not read.                                                           *)
(***************************************************************************)
Waiting(studs) == [done |-> FALSE, students |-> studs, out |-> <<>>, rest |-> <<>>]

Zero == Float(0, 0)

Four == Float(4, 0)

\* 0.0 <= gpa <= 4.0
InRange(g) == FloatLeq(Zero, g) /\ FloatLeq(g, Four)

\* An age loop that rejects negative numbers only
RECURSIVE AddAgeLoopNonNegative(_, _)
AddAgeLoopNonNegative(lines, o) ==
    IF lines = <<>> THEN [done |-> FALSE, val |-> 0, out |-> o, rest |-> <<>>]
    ELSE LET p == ParseInt(Head(lines))
         IN  IF ~p.ok
             THEN AddAgeLoopNonNegative(Tail(lines), Append(o, Msg("invalid_age", <<>>)))
             ELSE IF p.val < 0
             THEN AddAgeLoopNonNegative(Tail(lines),
                                        Append(o, Msg("age_must_be_positive", <<>>)))
             ELSE [done |-> TRUE, val |-> p.val, out |-> o, rest |-> Tail(lines)]

\* add_new_student, the age loop: int(input()), positive, else ask again
RECURSIVE AddAgeLoop(_, _)
AddAgeLoop(lines, o) ==
    IF lines = <<>> THEN [done |-> FALSE, val |-> 0, out |-> o, rest |-> <<>>]
    ELSE LET p == ParseInt(Head(lines))
         IN  IF ~p.ok
             THEN AddAgeLoop(Tail(lines), Append(o, Msg("invalid_age", <<>>)))
             ELSE IF p.val <= 0
             THEN AddAgeLoop(Tail(lines), Append(o, Msg("age_must_be_positive", <<>>)))
             ELSE [done |-> TRUE, val |-> p.val, out |-> o, rest |-> Tail(lines)]

\* add_new_student, the GPA loop: float(input()) in [0.0, 4.0], else ask again
RECURSIVE AddGpaLoop(_, _)
AddGpaLoop(lines, o) ==
    IF lines = <<>> THEN [done |-> FALSE, val |-> Zero, out |-> o, rest |-> <<>>]
    ELSE LET p == ParseFloat(Head(lines))
         IN  IF ~p.ok
             THEN AddGpaLoop(Tail(lines), Append(o, Msg("invalid_gpa", <<>>)))
             ELSE IF ~InRange(p.val)
             THEN AddGpaLoop(Tail(lines), Append(o, Msg("gpa_out_of_range", <<>>)))
             ELSE [done |-> TRUE, val |-> p.val, out |-> o, rest |-> Tail(lines)]

add_new_student(studs, lines) ==
    LET student_id == StrInt(get_next_id(studs))
        name == Strip(Head(lines))
        a == AddAgeLoop(Tail(lines), <<>>)
        grade == Strip(Head(a.rest))
        g == AddGpaLoop(Tail(a.rest), a.out)
        new_student == StudentInit(StrV(student_id), StrV(name), IntV(a.val),
                                   StrV(grade), FloatV(g.val)).student
    IN  IF lines = <<>> THEN Waiting(studs)
        ELSE IF name = <<>>
        THEN [done |-> TRUE, students |-> studs,
              out |-> <<Msg("name_cannot_be_empty", <<>>)>>, rest |-> Tail(lines)]
        ELSE IF ~a.done \/ a.rest = <<>> THEN Waiting(studs)
        ELSE IF ~g.done THEN Waiting(studs)
        ELSE [done |-> TRUE, students |-> Append(studs, new_student),
              out |-> Append(g.out, Msg("added", student_id)), rest |-> g.rest]

view_all_students(studs) ==
    IF studs = <<>> THEN <<Msg("no_student_records", <<>>)>>
    ELSE <<Msg("table_header", <<>>)>>
         \o [i \in 1..Len(studs) |-> Msg("record", studs[i].id)]

students_search(studs, lines) ==
    LET query == Strip(Head(lines))
        Hit(s) == Contains(Lower(s.id), Lower(query))
                  \/ Contains(Lower(s.name), Lower(query))
        found_students == SelectSeq(studs, Hit)
    IN  IF lines = <<>> THEN Waiting(studs)
        ELSE IF query = <<>>
        THEN [done |-> TRUE, students |-> studs, out |-> <<>>, rest |-> Tail(lines)]
        ELSE IF found_students # <<>>
        THEN [done |-> TRUE, students |-> studs,
              out |-> [i \in 1..Len(found_students) |->
                          Msg("search_result", found_students[i].id)],
              rest |-> Tail(lines)]
        ELSE [done |-> TRUE, students |-> studs,
              out |-> <<Msg("no_student_found", <<>>)>>, rest |-> Tail(lines)]

\* update_and_delete, the age loop: empty keeps, a positive int is stored
RECURSIVE UpdAgeLoop(_, _, _)
UpdAgeLoop(lines, cur, o) ==
    IF lines = <<>> THEN [done |-> FALSE, val |-> cur, out |-> o, rest |-> <<>>]
    ELSE LET new_age == Strip(Head(lines))
             p == ParseInt(new_age)
         IN  IF new_age = <<>>
             THEN [done |-> TRUE, val |-> cur, out |-> o, rest |-> Tail(lines)]
             ELSE IF ~p.ok
             THEN UpdAgeLoop(Tail(lines), cur, Append(o, Msg("invalid_age", <<>>)))
             ELSE IF p.val > 0
             THEN [done |-> TRUE, val |-> p.val, out |-> o, rest |-> Tail(lines)]
             ELSE UpdAgeLoop(Tail(lines), cur,
                             Append(o, Msg("age_must_be_positive", <<>>)))

\* update_and_delete, the GPA loop: empty keeps, a float in range is stored
RECURSIVE UpdGpaLoop(_, _, _)
UpdGpaLoop(lines, cur, o) ==
    IF lines = <<>> THEN [done |-> FALSE, val |-> cur, out |-> o, rest |-> <<>>]
    ELSE LET new_gpa == Strip(Head(lines))
             p == ParseFloat(new_gpa)
         IN  IF new_gpa = <<>>
             THEN [done |-> TRUE, val |-> cur, out |-> o, rest |-> Tail(lines)]
             ELSE IF ~p.ok
             THEN UpdGpaLoop(Tail(lines), cur, Append(o, Msg("invalid_gpa", <<>>)))
             ELSE IF InRange(p.val)
             THEN [done |-> TRUE, val |-> p.val, out |-> o, rest |-> Tail(lines)]
             ELSE UpdGpaLoop(Tail(lines), cur, Append(o, Msg("gpa_out_of_range", <<>>)))

\* A search that returns the last record of that id
FindLast(studs, student_id) ==
    IF \E i \in 1..Len(studs) : studs[i].id = student_id
    THEN CHOOSE i \in 1..Len(studs) :
             /\ studs[i].id = student_id
             /\ \A j \in (i + 1)..Len(studs) : studs[j].id # student_id
    ELSE 0

\* next(s for s in students if s.id == student_id): its index, 0 for
\* StopIteration
FindFirst(studs, student_id) ==
    IF \E i \in 1..Len(studs) : studs[i].id = student_id
    THEN CHOOSE i \in 1..Len(studs) :
             /\ studs[i].id = student_id
             /\ \A j \in 1..(i - 1) : studs[j].id # student_id
    ELSE 0

\* students.remove(student_to_modify): Student defines no __eq__, so the
\* object found, at its own index, is the one removed
RemoveAt(studs, i) == SubSeq(studs, 1, i - 1) \o SubSeq(studs, i + 1, Len(studs))

\* An assignment without the emptiness test
Overwrite(new, cur) == new

\* if new_name: student_to_modify.name = new_name  (and the same for grade)
KeepIfEmpty(new, cur) == IF new # <<>> THEN new ELSE cur

\* The Update branch on the record at index i; lines start at the name prompt
UpdateFields(studs, i, lines) ==
    LET cur == studs[i]
        new_name == Strip(Head(lines))
        a == UpdAgeLoop(Tail(lines), cur.age, <<>>)
        new_grade == Strip(Head(a.rest))
        g == UpdGpaLoop(Tail(a.rest), cur.gpa, a.out)
        upd == [cur EXCEPT !.name = KeepIfEmpty(new_name, @),
                           !.age = a.val,
                           !.grade = KeepIfEmpty(new_grade, @),
                           !.gpa = g.val]
    IN  IF lines = <<>> THEN Waiting(studs)
        ELSE IF ~a.done \/ a.rest = <<>> THEN Waiting(studs)
        ELSE IF ~g.done THEN Waiting(studs)
        ELSE [done |-> TRUE, students |-> [studs EXCEPT ![i] = upd],
              out |-> Append(g.out, Msg("updated", cur.id)), rest |-> g.rest]

update_and_delete(studs, lines) ==
    LET student_id == Strip(Head(lines))
        i == FindFirst(studs, student_id)
        action == Upper(Strip(Head(Tail(lines))))
        found == <<Msg("student_found", student_id)>>
        u == UpdateFields(studs, i, Tail(Tail(lines)))
    IN  IF lines = <<>> THEN Waiting(studs)
        ELSE IF i = 0
        THEN [done |-> TRUE, students |-> studs,
              out |-> <<Msg("not_found", student_id)>>, rest |-> Tail(lines)]
        ELSE IF Tail(lines) = <<>> THEN Waiting(studs)
        ELSE IF action = <<"D">>
        THEN [done |-> TRUE, students |-> RemoveAt(studs, i),
              out |-> Append(found, Msg("deleted", student_id)),
              rest |-> Tail(Tail(lines))]
        ELSE IF action = <<"U">>
        THEN [u EXCEPT !.out = found \o @]
        ELSE [done |-> TRUE, students |-> studs,
              out |-> Append(found, Msg("invalid_action", <<>>)),
              rest |-> Tail(Tail(lines))]

\* max(students, key=lambda s: s.gpa): the first record of maximal gpa
Topper(studs) ==
    CHOOSE i \in 1..Len(studs) :
        /\ \A j \in 1..Len(studs) : FloatLeq(studs[j].gpa, studs[i].gpa)
        /\ \A j \in 1..(i - 1) : ~FloatLeq(studs[i].gpa, studs[j].gpa)

\* calculate_avg_and_topper; the average is printed and kept nowhere
calculate_avg_and_topper(studs) ==
    IF studs = <<>> THEN <<Msg("no_records_for_calculation", <<>>)>>
    ELSE <<Msg("summary", StrInt(Len(studs))), Msg("topper", studs[Topper(studs)].id)>>

(***************************************************************************)
(* The files a session may start from, and what the user may type          *)
(***************************************************************************)
\* Two lines with the same id
FileDuplicate ==
    FileOf(<<FIELDNAMES,
           <<<<"1", "0", "0", "1">>, <<"a">>, <<"2", "0">>, <<"g">>, <<"3", ".", "5">>>>,
           <<<<"1", "0", "0", "1">>, <<"A", "d">>, <<"7">>, <<>>, <<"2", ".", "0">>>>>>)

\* A negative id
FileNegative ==
    FileOf(<<FIELDNAMES,
           <<<<"-", "5">>, <<"a">>, <<"2", "0">>, <<"g">>, <<"3", ".", "5">>>>>>)

\* No header line (the first line is discarded as the header), lines of
\* one and of four fields, a blank line, unparseable and out-of-range
\* numbers, a line of six fields, an id that is no number and a
\* zero-padded id
FileMalformed ==
    FileOf(<<<<<<"1", "0", "0", "3">>, <<"a">>, <<"2", "0">>, <<"g">>, <<"3", ".", "5">>>>,
           <<<<"1", "0", "0", "4">>>>,
           <<<<"x">>, <<"a">>, <<"x">>, <<"g">>, <<"y">>>>,
           <<>>,
           <<<<"1", "0", "0", "5">>, <<"a">>, <<"9">>, <<"g">>>>,
           <<<<"0", "1">>, <<"A", "d">>, <<"0">>, <<>>, <<"9", ".", "5">>, <<"u">>>>>>)

InitFiles ==
    {Absent, FileOf(<<>>), FileOf(<<FIELDNAMES>>), FileDuplicate, FileNegative,
     FileMalformed}

\* Lines typed at the menu prompt
Choices ==
    {<<"1">>, <<"2">>, <<" ", "3">>, <<"4", " ">>, <<"5">>, <<" ", "6", " ">>, <<"7">>}

\* Lines typed during add_new_student
AddScripts ==
    {<<<<" ", " ">>>>,
     <<<<" ", "d", " ">>, <<"x">>, <<"0">>, <<"-", "1">>, <<" ", "8", " ">>, <<"g">>, <<"a", ".", "5">>, <<"4", ".", "0", "5">>, <<"-", "0", ".", "5">>, <<"0", ".", "2", "5">>>>}

\* Lines typed at the id prompt of update_and_delete
TargetLines ==
    {<<" ", "1", "0", "0", "1", " ">>, <<"1", "0", "0", "2">>, <<"-", "5">>, <<"x">>, <<"X">>, <<"0", "1">>, <<"2">>}

\* Lines typed after the id prompt of update_and_delete
ActionLines ==
    {<<>>,
     <<<<" ", "d", " ">>>>,
     <<<<"q">>>>,
     <<<<"u">>, <<>>, <<>>, <<>>, <<>>>>,
     <<<<"U">>, <<" ">>, <<"-", "3">>, <<>>, <<"h">>, <<"a">>, <<>>>>,
     <<<<" ", "u">>, <<"b">>, <<"x">>, <<"0">>, <<"9">>, <<"h">>, <<"5">>, <<"2", ".", "5">>>>}

\* Lines typed during students_search
SearchScripts ==
    {<<<<>>>>, <<<<" ", "D", " ">>>>}

(***************************************************************************)
(* The session: main()                                                     *)
(***************************************************************************)
Ids(studs) == {studs[i].id : i \in 1..Len(studs)}

Init ==
    /\ pc = "start"
    /\ file \in InitFiles
    /\ students = <<>>
    /\ out = <<>>
    /\ choice = <<>>
    /\ typed = <<>>
    /\ saves = 0
    /\ adds = 0
    /\ usedIds = {}

\* students = load_students()
Load ==
    /\ pc = "start"
    /\ \E r \in {load_students(file)} :
           /\ students' = r.students
           /\ out' = r.out
           /\ file' = r.file
           /\ usedIds' = Ids(r.students)
    /\ pc' = "menu"
    /\ UNCHANGED <<choice, typed, saves, adds>>

\* choice = input(...).strip() is `key`; `typed` are the lines read by the
\* handler dispatched to
Menu(c, key) ==
    /\ pc = "menu"
    /\ Strip(c) = key
    /\ choice' = c

\* An add that also rewrites the file
AddAutosave ==
    \E c \in Choices, lines \in AddScripts :
        /\ Menu(c, <<"1">>)
        /\ adds < MaxAdds
        /\ \E r \in {add_new_student(students, lines)} :
               /\ r.done /\ r.rest = <<>>
               /\ students' = r.students
               /\ out' = r.out
               /\ adds' = IF Len(r.students) > Len(students) THEN adds + 1 ELSE adds
               /\ usedIds' = usedIds \cup Ids(r.students)
               /\ file' = save_students(r.students)
        /\ typed' = lines
        /\ UNCHANGED <<pc, saves>>

Add ==
    \E c \in Choices, lines \in AddScripts :
        /\ Menu(c, <<"1">>)
        /\ adds < MaxAdds
        /\ \E r \in {add_new_student(students, lines)} :
               /\ r.done /\ r.rest = <<>>
               /\ students' = r.students
               /\ out' = r.out
               /\ adds' = IF Len(r.students) > Len(students) THEN adds + 1 ELSE adds
               /\ usedIds' = usedIds \cup Ids(r.students)
        /\ typed' = lines
        /\ UNCHANGED <<pc, file, saves>>

View ==
    \E c \in Choices :
        /\ Menu(c, <<"2">>)
        /\ out' = view_all_students(students)
        /\ typed' = <<>>
        /\ UNCHANGED <<pc, file, students, saves, adds, usedIds>>

Search ==
    \E c \in Choices, lines \in SearchScripts :
        /\ Menu(c, <<"3">>)
        /\ \E r \in {students_search(students, lines)} :
               /\ r.done /\ r.rest = <<>>
               /\ out' = r.out
        /\ typed' = lines
        /\ UNCHANGED <<pc, file, students, saves, adds, usedIds>>

UpdateDelete ==
    \E c \in Choices, t \in TargetLines, rest \in ActionLines :
        /\ Menu(c, <<"4">>)
        /\ \E r \in {update_and_delete(students, <<t>> \o rest)} :
               /\ r.done /\ r.rest = <<>>
               /\ students' = r.students
               /\ out' = r.out
        /\ typed' = <<t>> \o rest
        /\ UNCHANGED <<pc, file, saves, adds, usedIds>>

Aggregate ==
    \E c \in Choices :
        /\ Menu(c, <<"5">>)
        /\ out' = calculate_avg_and_topper(students)
        /\ typed' = <<>>
        /\ UNCHANGED <<pc, file, students, saves, adds, usedIds>>

ExitSave ==
    \E c \in Choices :
        /\ Menu(c, <<"6">>)
        /\ file' = save_students(students)
        /\ saves' = saves + 1
        /\ out' = <<Msg("data_saved", <<>>), Msg("goodbye", <<>>)>>
        /\ pc' = "done"
        /\ typed' = <<>>
        /\ UNCHANGED <<students, adds, usedIds>>

MenuKeys == {<<"1">>, <<"2">>, <<"3">>, <<"4">>, <<"5">>, <<"6">>}

InvalidChoice ==
    \E c \in Choices :
        /\ Menu(c, Strip(c))
        /\ Strip(c) \notin MenuKeys
        /\ out' = <<Msg("invalid_choice", <<>>)>>
        /\ typed' = <<>>
        /\ UNCHANGED <<pc, file, students, saves, adds, usedIds>>

Next ==
    \/ Load
    \/ Add
    \/ View
    \/ Search
    \/ UpdateDelete
    \/ Aggregate
    \/ ExitSave
    \/ InvalidChoice

Spec == Init /\ [][Next]_vars

(***************************************************************************)
(* Properties                                                              *)
(***************************************************************************)
Distinct(studs) ==
    \A i, j \in 1..Len(studs) : i # j => studs[i].id # studs[j].id

\* The integers the ids of a collection parse to
NumericIds(studs) ==
    {ParseInt(studs[i].id).val : i \in {k \in 1..Len(studs) : ParseInt(studs[k].id).ok}}

SetMax(S) == CHOOSE m \in S : \A x \in S : x <= m

Last(q) == q[Len(q)]

\* The answers to a rejected age or gpa response among the lines printed
Rejections(q) ==
    Cardinality({k \in 1..Len(q) :
                    q[k].m \in {"invalid_age", "age_must_be_positive",
                                "invalid_gpa", "gpa_out_of_range"}})

\* The step appends a record (only add_new_student does)
Appends == pc = "menu" /\ Len(students') = Len(students) + 1

Chose(key) == pc = "menu" /\ Strip(choice') = key

\* C1: in every reachable state no two records of the collection have the
\* same id.
C1_UniqueIds == Distinct(students)

\* C2: the id add_new_student gives a new record was held by no record
\* earlier in the session, deleted ones included.
C2_IdsNotReused ==
    [][Appends => Last(students').id \notin usedIds]_vars

\* C3 as stated: 1001 for the empty collection, else (the largest id that
\* parses as an integer) + 1.
C3_MaxPlusOne ==
    /\ students = <<>> => get_next_id(students) = 1001
    /\ students # <<>> /\ NumericIds(students) # {}
           => get_next_id(students) = SetMax(NumericIds(students)) + 1

ExpectedNextId(studs) ==
    IF studs = <<>> THEN 1001 ELSE SetMax(NumericIds(studs) \cup {0}) + 1

\* C3 as amended: 1001 for the empty collection, else the largest of 0 and
\* the ids that parse as integers, plus 1 (ids that do not parse are
\* ignored); the record add_new_student appends has the string form of that
\* number as its id.
C3_NextId ==
    /\ [](get_next_id(students) = ExpectedNextId(students))
    /\ [][Appends => Last(students').id = StrInt(ExpectedNextId(students))]_vars

C3_Witness ==
    /\ adds >= 1
    /\ \E i \in 1..Len(students) : ~ParseInt(students[i].id).ok
    /\ \E i \in 1..Len(students) : students[i].id = <<"0", "1">>
    /\ Last(students).id = <<"2">>

\* C4: after the initial load only choice '6' writes the file and only it
\* ends the loop: any other choice leaves the file as it was and returns
\* to the menu; '6' saves the current collection once and terminates.
C4_SaveOnlyOnExit ==
    /\ [][pc = "menu" =>
            IF Strip(choice') = <<"6">>
            THEN /\ pc' = "done"
                 /\ saves' = saves + 1
                 /\ file' = save_students(students)
                 /\ students' = students
            ELSE /\ pc' = "menu"
                 /\ file' = file
                 /\ saves' = saves]_vars
    /\ [][pc # "done"]_vars
    /\ [](saves = IF pc = "done" THEN 1 ELSE 0)

C4_Witness ==
    /\ pc = "done"
    /\ saves = 1
    /\ adds >= 1
    /\ Len(file.rows) = Len(students) + 1
    /\ Len(students) >= 2

FirstWithId(studs, t) ==
    CHOOSE i \in 1..Len(studs) :
        studs[i].id = t /\ \A j \in 1..(i - 1) : studs[j].id # t

\* C6: in update_and_delete, a target that is the id of no record leaves
\* the collection as it was and reports not-found; a target that is and the
\* action Delete remove the first record of that id and nothing else.
C6_Delete ==
    [][Chose(<<"4">>) =>
         LET t == Strip(typed'[1])
         IN  IF t \notin Ids(students)
             THEN students' = students /\ out' = <<Msg("not_found", t)>>
             ELSE Upper(Strip(typed'[2])) = <<"D">> =>
                    LET i == FirstWithId(students, t)
                    IN  /\ Len(students') = Len(students) - 1
                        /\ \A k \in 1..Len(students') :
                              students'[k] = IF k < i THEN students[k]
                                             ELSE students[k + 1]]_vars

C6_Witness ==
    /\ file = FileDuplicate
    /\ Strip(choice) = <<"4">>
    /\ Len(typed) = 2
    /\ Upper(Strip(typed[2])) = <<"D">>
    /\ Len(students) = 1
    /\ students[1].name = <<"A", "d">>

\* The response that ends the age prompt of an update: empty, or a
\* positive integer
EndsAge(l) == Strip(l) = <<>> \/ (ParseInt(Strip(l)).ok /\ ParseInt(Strip(l)).val > 0)

\* C7: an update keeps every field whose response is empty, and in every
\* case the record's id, the other records and the size and order of the
\* collection.
C7_UpdateFrame ==
    [][Chose(<<"4">>) /\ Strip(typed'[1]) \in Ids(students)
         /\ Upper(Strip(typed'[2])) = <<"U">> =>
         LET i == FirstWithId(students, Strip(typed'[1]))
             n == Len(typed')
             kAge == CHOOSE k \in 4..n :
                         EndsAge(typed'[k]) /\ \A j \in 4..(k - 1) : ~EndsAge(typed'[j])
         IN  /\ Len(students') = Len(students)
             /\ \A j \in 1..Len(students) : j # i => students'[j] = students[j]
             /\ students'[i].id = students[i].id
             /\ Strip(typed'[3]) = <<>> => students'[i].name = students[i].name
             /\ Strip(typed'[kAge]) = <<>> => students'[i].age = students[i].age
             /\ Strip(typed'[kAge + 1]) = <<>> => students'[i].grade = students[i].grade
             /\ Strip(typed'[n]) = <<>> => students'[i].gpa = students[i].gpa]_vars

C7_Witness ==
    /\ Strip(choice) = <<"4">>
    /\ Len(typed) = 8
    /\ Last(out).m = "updated"
    /\ Rejections(out) = 2
    /\ \E i \in 1..Len(students) :
          /\ students[i].id = Strip(typed[1])
          /\ students[i].grade = <<"h">>
          /\ students[i].name = <<"a">>
          /\ students[i].age = 20
          /\ students[i].gpa = Float(35, 1)

\* The data lines of a file: all but the first
DataRows(f) == IF f.exists /\ f.rows # <<>> THEN Tail(f.rows) ELSE <<>>

IsFull(row) == Len(row) >= 5

IsShort(row) == Len(row) >= 1 /\ Len(row) < 5

CountOf(q, m) == Cardinality({k \in 1..Len(q) : q[k].m = m})

ValidRecord(s) == s.age >= 1 /\ 0 <= s.gpa.m /\ s.gpa.m <= 4 * Pow10(s.gpa.e)

AllValid(studs) == \A i \in 1..Len(studs) : ValidRecord(studs[i])

\* C9: add, update and delete keep every age positive and every gpa in
\* [0.0, 4.0] once they are: the record an add appends is in range, an
\* update changes an age or a gpa only to a value in range, and every
\* rejected response is answered by one more prompt.
C9_RangesKept ==
    [][pc = "menu" =>
         /\ AllValid(students) => AllValid(students')
         /\ Appends => /\ ValidRecord(Last(students'))
                       /\ Rejections(out') = Len(typed') - 4
         /\ Strip(choice') = <<"4">> /\ Len(students') = Len(students) =>
               /\ \A i \in 1..Len(students) :
                     /\ students'[i].age # students[i].age => students'[i].age >= 1
                     /\ students'[i].gpa # students[i].gpa =>
                           /\ 0 <= students'[i].gpa.m
                           /\ students'[i].gpa.m <= 4 * Pow10(students'[i].gpa.e)
               /\ Last(out').m = "updated" => Rejections(out') = Len(typed') - 6]_vars

C9_Witness ==
    /\ Strip(choice) = <<"1">>
    /\ Len(typed) > 4
    /\ Rejections(out) = 6
    /\ AllValid(students)
    /\ Len(students) >= 2

\* C10: the string form of get_next_id is the id of no record of the
\* collection, whatever its ids are, so that add, update and delete keep
\* pairwise distinct ids pairwise distinct.
C10_FreshId ==
    /\ [](StrInt(get_next_id(students)) \notin Ids(students))
    /\ [][pc = "menu" /\ Distinct(students) => Distinct(students')]_vars

C10_Witness ==
    /\ Distinct(students)
    /\ adds = MaxAdds
    /\ \E i \in 1..Len(students) : students[i].id = <<"-", "5">>
    /\ Len(students) >= 3

====
